---- MODULE Spec2Model ----
(***************************************************************************)
(* Model of seqio/loggers.py (TensorBoardLogger, TensorAndNumpyEncoder,    *)
(* JSONLogger) and of the MetricValue variants of seqio/metrics.py.         *)
(***************************************************************************)
EXTENDS Integers, Sequences, FiniteSets, TLC

(***************************************************************************)
(* Bounds of the model.                                                    *)
(***************************************************************************)
 \* largest length of one array dimension
MaxDimLen == 6
 \* largest number of JSONLogger calls in SpecAppend and SpecMetrics
MaxCalls == 2
 \* largest number of JSONLogger calls in SpecInfer
MaxInferCalls == 1
 \* largest number of examples of a dataset
MaxExamples == 2
 \* largest number of TensorBoardLogger calls
MaxTBCalls == 2

(***************************************************************************)
(* Program constants.                                                      *)
(***************************************************************************)
 \* default of max_ndarray_size
DefaultMaxNdarraySize == 32
 \* the slice [:5] of the summary string
FirstN == 5
 \* the dummy step used when step is None
DummyStep == -1

Min(a, b) == IF a < b THEN a ELSE b
Max(a, b) == IF a < b THEN b ELSE a

(***************************************************************************)
(* metrics.py: the MetricValue variants.  A value is a record whose cls    *)
(* field is the class; Scalar carries value, Text carries textdata (a str  *)
(* or a bytes object).                                                     *)
(***************************************************************************)
Scalar(v) == [cls |-> "Scalar", value |-> v]
Text(t) == [cls |-> "Text", textdata |-> t]
Image == [cls |-> "Image"]
Audio == [cls |-> "Audio"]
Histogram == [cls |-> "Histogram"]
Generic == [cls |-> "Generic"]

 \* python values that occur as textdata: a str or a bytes object
PyStr(s) == [type |-> "str", chars |-> s]
PyBytes(s) == [type |-> "bytes", chars |-> s]

(***************************************************************************)
(* TensorAndNumpyEncoder.default on arrays and tensors.                    *)
(* An array is [kind, dtype, shape, data]: data is the flattened (C order) *)
(* element sequence, Len(data) the product of shape.                       *)
(***************************************************************************)
RECURSIVE Prod(_)
Prod(shape) == IF shape = <<>> THEN 1 ELSE Head(shape) * Prod(Tail(shape))

 \* ndarray.size
Size(obj) == Prod(obj.shape)

 \* ndarray.tolist(): nested lists following shape; a 0-d array gives the
 \* bare element
RECURSIVE ToList(_, _)
ToList(shape, data) ==
  IF shape = <<>> THEN data[1]
  ELSE LET stride == Prod(Tail(shape))
       IN [i \in 1..Head(shape) |->
             ToList(Tail(shape), SubSeq(data, (i - 1) * stride + 1, i * stride))]

 \* seq[:n]
Slice(seq, n) == SubSeq(seq, 1, Min(n, Len(seq)))

 \* tf.cast(obj, tf.float32) / obj.astype(np.float32): same shape and
 \* elements, dtype float32
AsFloat32(obj) == [obj EXCEPT !.dtype = "float32"]

 \* Tensor.numpy()
Numpy(obj) == [obj EXCEPT !.kind = "ndarray"]

 \* lines 140-144: a tf.Tensor becomes an ndarray, bfloat16 cast first
FromTensor(obj) ==
  IF obj.kind = "Tensor"
  THEN Numpy(IF obj.dtype = "bfloat16" THEN AsFloat32(obj) ELSE obj)
  ELSE obj

 \* a bug the claim C1 must detect: '<' for '<='
DefaultLt(obj0, max_ndarray_size) ==
  LET a == FromTensor(obj0)
      obj == IF a.dtype = "bfloat16" THEN AsFloat32(a) ELSE a
  IN IF Size(obj) < max_ndarray_size
     THEN [type |-> "list", value |-> ToList(obj.shape, obj.data)]
     ELSE [type |-> "str", typename |-> obj.kind, shape |-> obj.shape,
           dtype |-> a.dtype, first |-> Slice(obj.data, FirstN),
           tail |-> " ..."]

 \* lines 139-159.  The summary string
 \*   f"{type(obj).__name__}(shape={obj.shape}, dtype={obj_dtype}); first: {first_five_str} ..."
 \* is kept as its interpolated parts.
Default(obj0, max_ndarray_size) ==
  LET a == FromTensor(obj0)
      obj_dtype == a.dtype
      obj == IF a.dtype = "bfloat16" THEN AsFloat32(a) ELSE a
  IN IF Size(obj) <= max_ndarray_size
     THEN [type |-> "list", value |-> ToList(obj.shape, obj.data)]
     ELSE [type |-> "str", typename |-> obj.kind, shape |-> obj.shape,
           dtype |-> obj_dtype, first |-> Slice(obj.data, FirstN),
           tail |-> " ..."]

(***************************************************************************)
(* Inputs of the encoder specification.                                    *)
(***************************************************************************)
Dtypes == {"int64", "float32", "bfloat16"}
Shapes == {<<>>} \cup {<<n>> : n \in 0..MaxDimLen}
            \cup {<<n, m>> : n \in 0..MaxDimLen, m \in {0, 2, MaxDimLen}}
 \* the elements base+1 .. base+n, flattened
Iota(n, base) == [i \in 1..n |-> base + i]
Arrays == {[kind |-> k, dtype |-> d, shape |-> s, data |-> Iota(Prod(s), b)] :
             k \in {"ndarray", "Tensor"}, d \in Dtypes, s \in Shapes, b \in {0, 10}}
MaxSizes == {0, 3, FirstN, DefaultMaxNdarraySize}

NoResult == [type |-> "none"]

(***************************************************************************)
(* Python values and their JSON serialisation.                             *)
(***************************************************************************)
 \* Optional[...]: None is <<>>, a value v is <<v>>
NoneV == <<>>
Some(v) == <<v>>

PyInt(n) == [type |-> "int", n |-> n]
PyNone == [type |-> "NoneType"]
 \* an object no encoder can serialise
PyObject == [type |-> "object"]

JNum(n) == [json |-> "number", n |-> n]
JStr(s) == [json |-> "string", s |-> s]
JNull == [json |-> "null"]
JRaise == [json |-> "TypeError"]

 \* json.dumps(value) with the stock json.JSONEncoder: bytes and unknown
 \* objects raise TypeError
JsonValue(py) ==
  CASE py.type = "int" -> JNum(py.n)
    [] py.type = "str" -> JStr(py.chars)
    [] py.type = "NoneType" -> JNull
    [] OTHER -> JRaise

 \* json.dumps(value, cls=TensorAndNumpyEncoder): bytes are decoded as utf-8
 \* (lines 165-169), unknown objects raise TypeError (line 173)
EncoderValue(py) ==
  CASE py.type = "bytes" -> JStr(py.chars)
    [] OTHER -> JsonValue(py)

 \* json.dumps(dict): a JSON object, or TypeError when a member raises
JsonDumps(d) ==
  IF \E k \in DOMAIN d : JsonValue(d[k]) = JRaise
  THEN JRaise
  ELSE [json |-> "object", members |-> [k \in DOMAIN d |-> JsonValue(d[k])]]

EncoderDumps(d) ==
  IF \E k \in DOMAIN d : EncoderValue(d[k]) = JRaise
  THEN JRaise
  ELSE [json |-> "object", members |-> [k \in DOMAIN d |-> EncoderValue(d[k])]]

(***************************************************************************)
(* File names.  A name is the sequence of the pieces the f-string and      *)
(* os.path.join put together (output_dir is the same for all of them).     *)
(***************************************************************************)
Digit(d) == CASE d = 0 -> "0" [] d = 1 -> "1" [] d = 2 -> "2" [] d = 3 -> "3"
              [] d = 4 -> "4" [] d = 5 -> "5" [] d = 6 -> "6" [] d = 7 -> "7"
              [] d = 8 -> "8" [] d = 9 -> "9"

RECURSIVE Digits(_)
Digits(n) == IF n < 10 THEN <<Digit(n)>> ELSE Append(Digits(n \div 10), Digit(n % 10))

RECURSIVE ZeroPad(_, _)
ZeroPad(ds, width) == IF Len(ds) >= width THEN ds ELSE ZeroPad(<<"0">> \o ds, width)

 \* f"{step:06}": sign first, zero padded to six characters
Fmt06(n) == IF n < 0 THEN <<"-">> \o ZeroPad(Digits(-n), 5) ELSE ZeroPad(Digits(n), 6)

 \* line 209
MetricsFname(task_name) == <<task_name, "-metrics.jsonl">>

 \* a bug the claim C3 must detect: the new contents are written in place
TmpFnameInPlace(fname) == fname

 \* metrics_fname + ".tmp", lines 230 and 233
TmpFname(fname) == Append(fname, ".tmp")

 \* lines 239-240
InferencesFname(task_name, step) == <<task_name, "-">> \o Fmt06(step) \o <<".jsonl">>

(***************************************************************************)
(* The file system under output_dir: a function from the names of the      *)
(* existing files to their contents, a sequence of lines.                  *)
(***************************************************************************)
 \* tf.io.gfile.exists
Exists(files, fname) == fname \in DOMAIN files

 \* the file fname holds exactly lines afterwards, created if absent
WithFile(files, fname, lines) ==
  [f \in DOMAIN files \cup {fname} |-> IF f = fname THEN lines ELSE files[f]]

 \* tf.io.gfile.rename(src, dst, overwrite=True)
Rename(files, src, dst) ==
  [f \in (DOMAIN files \cup {dst}) \ ({src} \ {dst}) |->
     IF f = dst THEN files[src] ELSE files[f]]

(***************************************************************************)
(* JSONLogger.__call__: the pure parts.                                    *)
(* metrics is an ordered mapping: a sequence of [name, value] with         *)
(* distinct names.                                                         *)
(***************************************************************************)
 \* lines 204-207 (and 110-113)
EffectiveStep(step) == IF step = NoneV THEN DummyStep ELSE step[1]

Lookup(metrics, name) == (CHOOSE i \in 1..Len(metrics) : metrics[i].name = name)

 \* lines 211-220: the dict of the Scalar and Text metrics
SerializableMetrics(metrics) ==
  LET keep == {i \in 1..Len(metrics) : metrics[i].value.cls \in {"Scalar", "Text"}}
  IN [n \in {metrics[i].name : i \in keep} |->
        LET mv == metrics[Lookup(metrics, n)].value
        IN IF mv.cls = "Scalar" THEN mv.value ELSE mv.textdata]

 \* {"step": step, **serializable_metrics}: later keys override "step"
MetricsDict(step, metrics) ==
  LET sm == SerializableMetrics(metrics)
  IN [k \in {"step"} \cup DOMAIN sm |-> IF k \in DOMAIN sm THEN sm[k] ELSE PyInt(step)]

 \* itertools.zip_longest(a, b, c, d): as long as the longest, None filled
At(seq, i) == IF i <= Len(seq) THEN seq[i] ELSE PyNone
ZipLongest(a, b, c, d) ==
  [i \in 1..Max(Max(Len(a), Len(b)), Max(Len(c), Len(d))) |->
     <<At(a, i), At(b, i), At(c, i), At(d, i)>>]

 \* inferences.get(key, [])
Get(inferences, key) == IF key \in DOMAIN inferences THEN inferences[key] ELSE <<>>

 \* a bug the claim C5 must detect: write_n_results is ignored
ExamplesWithScoresAll(dataset, inferences, targets, write_n_results) ==
  ZipLongest(dataset, Get(inferences, "predictions"), targets, Get(inferences, "scores"))

 \* lines 243-248: `if self._write_n_results` is false for None and for 0
ExamplesWithScores(dataset, inferences, targets, write_n_results) ==
  LET zipped == ZipLongest(dataset, Get(inferences, "predictions"),
                           targets, Get(inferences, "scores"))
  IN IF write_n_results # NoneV /\ write_n_results[1] # 0
     THEN Slice(zipped, write_n_results[1])
     ELSE zipped

 \* lines 257-276: the dict of one example; prediction and target are left
 \* out when the encoder cannot serialise them
JsonDict(ex) ==
  LET inp == ex[1]
      prediction == ex[2]
      target == ex[3]
      score == ex[4]
      keys == {"input"}
                \cup (IF prediction # PyNone /\ EncoderValue(prediction) # JRaise
                      THEN {"prediction"} ELSE {})
                \cup (IF EncoderValue(target) # JRaise THEN {"target"} ELSE {})
                \cup (IF score # PyNone THEN {"score"} ELSE {})
  IN [k \in keys |-> CASE k = "input" -> inp
                       [] k = "prediction" -> prediction
                       [] k = "target" -> target
                       [] k = "score" -> score]

(***************************************************************************)
(* State.                                                                  *)
(***************************************************************************)
VARIABLES
  encObj, encMax, encResult,   \* the encoder, its input and its result
  fs,                          \* the files under output_dir
  write_n_results,             \* JSONLogger._write_n_results
  pc,                          \* position inside JSONLogger.__call__
  call,                        \* the arguments of the current (or last) call
  file_contents,               \* local of __call__, line 226
  examples,                    \* local examples_with_scores
  pos,                         \* number of examples consumed by the loop
  result,                      \* how the last call ended
  history,                     \* the calls that returned or raised, in order
  ncalls,                      \* number of calls begun
  summary_writers,             \* TensorBoardLogger._summary_writers
  tbCall,                      \* the arguments of the last TensorBoardLogger call
  tbResult,                    \* how the last TensorBoardLogger call ended
  tbCalls                      \* number of TensorBoardLogger calls

encVars == <<encObj, encMax, encResult>>
jsonVars == <<fs, write_n_results, pc, call, file_contents, examples, pos,
              result, history, ncalls>>
tbVars == <<summary_writers, tbCall, tbResult, tbCalls>>
vars == <<encObj, encMax, encResult, fs, write_n_results, pc, call,
          file_contents, examples, pos, result, history, ncalls,
          summary_writers, tbCall, tbResult, tbCalls>>

NoCall == [task_name |-> "", step |-> NoneV, metrics |-> <<>>, dataset |-> <<>>,
           inferences |-> <<>>, targets |-> <<>>]

NoFiles == <<>>

 \* the array of an encoder that is not in use
NoArray == [kind |-> "ndarray", dtype |-> "int64", shape |-> <<0>>, data |-> <<>>]

 \* the state after construction: TensorAndNumpyEncoder.__init__ (lines
 \* 135-137) with the object it is about to get, JSONLogger.__init__ (lines
 \* 193-195) over the files already in output_dir, TensorBoardLogger.__init__
 \* (lines 74-75)
Init(arrays, maxSizes, writeNs, initialFiles) ==
  /\ encObj \in arrays
  /\ encMax \in maxSizes
  /\ encResult = NoResult
  /\ fs \in initialFiles
  /\ write_n_results \in writeNs
  /\ pc = "idle"
  /\ call = NoCall
  /\ file_contents = <<>>
  /\ examples = <<>>
  /\ pos = 0
  /\ result = "none"
  /\ history = <<>>
  /\ ncalls = 0
  /\ summary_writers = <<>>
  /\ tbCall = NoCall
  /\ tbResult = "none"
  /\ tbCalls = 0

 \* json.JSONEncoder calls default(obj) on the object it cannot serialise
EncodeDefault ==
  /\ encResult = NoResult
  /\ encResult' = Default(encObj, encMax)
  /\ UNCHANGED <<encObj, encMax>>
  /\ UNCHANGED <<jsonVars, tbVars>>

 \* the same encoder is used for the next object
EncodeNext ==
  /\ encResult # NoResult
  /\ encObj' \in {a \in Arrays : a.kind = encObj.kind /\ a.dtype = encObj.dtype}
  /\ encResult' = NoResult
  /\ UNCHANGED encMax
  /\ UNCHANGED <<jsonVars, tbVars>>

(***************************************************************************)
(* JSONLogger.__call__, lines 197-283, one action per step that touches    *)
(* the file system.                                                        *)
(***************************************************************************)
metrics_fname == MetricsFname(call.task_name)
tmp_fname == TmpFname(metrics_fname)
inferences_fname == InferencesFname(call.task_name, EffectiveStep(call.step))

Calls(tasks, steps, metricsSet, dataSet) ==
  {[task_name |-> t, step |-> s, metrics |-> m, dataset |-> d.dataset,
    inferences |-> d.inferences, targets |-> d.targets] :
     t \in tasks, s \in steps, m \in metricsSet, d \in dataSet}

 \* the call ends: it returned ("ok") or raised
Ended(how) ==
  /\ pc' = "idle"
  /\ result' = how
  /\ history' = Append(history, [call |-> call, result |-> how])

 \* lines 204-222: entry, up to `if metrics:`
JsonCall(c, maxCalls) ==
  /\ pc = "idle"
  /\ ncalls < maxCalls
  /\ ncalls' = ncalls + 1
  /\ call' = c
  /\ result' = "running"
  /\ file_contents' = <<>>
  /\ examples' = <<>>
  /\ pos' = 0
  /\ pc' = IF c.metrics # <<>> THEN "read" ELSE "check_n"
  /\ UNCHANGED <<fs, write_n_results, history>>
  /\ UNCHANGED <<encVars, tbVars>>

 \* lines 226-229
ReadOld ==
  /\ pc = "read"
  /\ file_contents' = IF Exists(fs, metrics_fname) THEN fs[metrics_fname] ELSE <<>>
  /\ pc' = "open_tmp"
  /\ UNCHANGED <<fs, write_n_results, call, examples, pos, result, history, ncalls>>
  /\ UNCHANGED <<encVars, tbVars>>

 \* line 230: GFile(..., "w") creates or truncates the file
OpenTmp ==
  /\ pc = "open_tmp"
  /\ fs' = WithFile(fs, tmp_fname, <<>>)
  /\ pc' = "write_old"
  /\ UNCHANGED <<write_n_results, call, file_contents, examples, pos, result,
                 history, ncalls>>
  /\ UNCHANGED <<encVars, tbVars>>

 \* line 231
WriteOld ==
  /\ pc = "write_old"
  /\ fs' = WithFile(fs, tmp_fname, fs[tmp_fname] \o file_contents)
  /\ pc' = "write_line"
  /\ UNCHANGED <<write_n_results, call, file_contents, examples, pos, result,
                 history, ncalls>>
  /\ UNCHANGED <<encVars, tbVars>>

 \* line 232: json.dumps is called without cls, then the line is written;
 \* when it raises the with block closes the file and the call ends
WriteLine ==
  /\ pc = "write_line"
  /\ LET line == JsonDumps(MetricsDict(EffectiveStep(call.step), call.metrics))
     IN IF line = JRaise
        THEN /\ Ended("TypeError")
             /\ UNCHANGED fs
        ELSE /\ fs' = WithFile(fs, tmp_fname, Append(fs[tmp_fname], line))
             /\ pc' = "rename"
             /\ UNCHANGED <<result, history>>
  /\ UNCHANGED <<write_n_results, call, file_contents, examples, pos, ncalls>>
  /\ UNCHANGED <<encVars, tbVars>>

 \* line 233
RenameTmp ==
  /\ pc = "rename"
  /\ fs' = Rename(fs, tmp_fname, metrics_fname)
  /\ pc' = "check_n"
  /\ UNCHANGED <<write_n_results, call, file_contents, examples, pos, result,
                 history, ncalls>>
  /\ UNCHANGED <<encVars, tbVars>>

 \* lines 235-236
ReturnIfZero ==
  /\ pc = "check_n"
  /\ write_n_results = Some(0)
  /\ Ended("ok")
  /\ UNCHANGED <<fs, write_n_results, call, file_contents, examples, pos, ncalls>>
  /\ UNCHANGED <<encVars, tbVars>>

 \* lines 239-248: the inferences file is created or truncated, the examples
 \* are zipped and sliced
OpenInferences ==
  /\ pc = "check_n"
  /\ write_n_results # Some(0)
  /\ fs' = WithFile(fs, inferences_fname, <<>>)
  /\ examples' = ExamplesWithScores(call.dataset, call.inferences, call.targets,
                                    write_n_results)
  /\ pos' = 0
  /\ pc' = "loop"
  /\ UNCHANGED <<write_n_results, call, file_contents, result, history, ncalls>>
  /\ UNCHANGED <<encVars, tbVars>>

 \* lines 250-279: one example.  `for k in inp` raises TypeError when the
 \* dataset is exhausted before the other sequences (inp is None); line 278
 \* raises when the encoder cannot serialise the dict
WriteExample ==
  /\ pc = "loop"
  /\ pos < Len(examples)
  /\ LET ex == examples[pos + 1]
         json_str == EncoderDumps(JsonDict(ex))
     IN IF ex[1] = PyNone \/ json_str = JRaise
        THEN /\ Ended("TypeError")
             /\ UNCHANGED <<fs, pos>>
        ELSE /\ fs' = WithFile(fs, inferences_fname,
                               Append(fs[inferences_fname], json_str))
             /\ pos' = pos + 1
             /\ UNCHANGED <<pc, result, history>>
  /\ UNCHANGED <<write_n_results, call, file_contents, examples, ncalls>>
  /\ UNCHANGED <<encVars, tbVars>>

 \* lines 280-283: the loop is over, the call returns (write_time, the
 \* divisor of line 283, is taken to be positive)
Return ==
  /\ pc = "loop"
  /\ pos = Len(examples)
  /\ Ended("ok")
  /\ UNCHANGED <<fs, write_n_results, call, file_contents, examples, pos, ncalls>>
  /\ UNCHANGED <<encVars, tbVars>>

 \* the call is interrupted (the process is killed, an exception arrives):
 \* nothing more of it runs
Interrupt ==
  /\ pc # "idle"
  /\ pc' = "idle"
  /\ result' = "interrupted"
  /\ UNCHANGED <<fs, write_n_results, call, file_contents, examples, pos,
                 history, ncalls>>
  /\ UNCHANGED <<encVars, tbVars>>

JsonSteps ==
  \/ ReadOld
  \/ OpenTmp
  \/ WriteOld
  \/ WriteLine
  \/ RenameTmp
  \/ ReturnIfZero
  \/ OpenInferences
  \/ WriteExample
  \/ Return

(***************************************************************************)
(* Inputs.                                                                 *)
(***************************************************************************)
Metric(n, v) == [name |-> n, value |-> v]

 \* the datasets with n examples: predictions and scores are aligned with
 \* the dataset when given, targets always
Inp(i) == PyStr(<<"input", i>>)
Pred(i) == PyStr(<<"prediction", i>>)
Target(i) == PyStr(<<"target", i>>)
Score(i) == PyInt(i)
DataSets(maxN) ==
  {[dataset |-> [i \in 1..n |-> Inp(i)],
    inferences |-> [k \in keys |-> IF k = "predictions"
                                   THEN [i \in 1..n |-> IF i = obj THEN PyObject ELSE Pred(i)]
                                   ELSE [i \in 1..n |-> Score(i)]],
    targets |-> [i \in 1..n |-> IF i = 1 THEN PyBytes(<<"target", i>>) ELSE Target(i)]] :
     n \in 0..maxN, keys \in {{}, {"predictions"}, {"predictions", "scores"}},
     obj \in {0, 2}}

AppendMetrics ==
  { <<>>,
    <<Metric("acc", Scalar(PyInt(1)))>>,
    <<Metric("img", Image)>>,
    <<Metric("txt", Text(PyBytes("b")))>> }

 \* one example, no predictions, no scores
AppendData == {d \in DataSets(1) : Len(d.dataset) = 1 /\ DOMAIN d.inferences = {}}

AppendCalls == Calls({"t1", "t2"}, {NoneV, Some(1)}, AppendMetrics, AppendData)

AppendNext ==
  \/ \E c \in AppendCalls : JsonCall(c, MaxCalls)
  \/ JsonSteps
  \/ Interrupt

SpecAppend ==
  Init({NoArray}, {DefaultMaxNdarraySize}, {NoneV, Some(0)}, {NoFiles})
    /\ [][AppendNext]_vars

(***************************************************************************)
(* The specification of the metrics line: every MetricValue variant, no    *)
(* interruption.                                                           *)
(***************************************************************************)
MetricValues ==
  {Scalar(PyInt(1)), Text(PyStr("s")), Text(PyBytes("b")), Image, Audio,
   Histogram, Generic}

AllMetrics ==
  {<<>>}
    \cup {<<Metric("m1", v)>> : v \in MetricValues}
    \cup {<<Metric("m1", v), Metric("m2", w)>> :
            v \in {Scalar(PyInt(1)), Image}, w \in MetricValues}

MetricsCalls == Calls({"t1", "t2"}, {NoneV, Some(1)}, AllMetrics, AppendData)

MetricsNext ==
  \/ \E c \in MetricsCalls : JsonCall(c, MaxCalls)
  \/ JsonSteps

SpecMetrics ==
  Init({NoArray}, {DefaultMaxNdarraySize}, {NoneV, Some(0)}, {NoFiles})
    /\ [][MetricsNext]_vars

(***************************************************************************)
(* The specification of the inferences file: every write_n_results, over   *)
(* an output_dir that may hold the inferences file of an earlier run.      *)
(***************************************************************************)
InferMetrics ==
  { <<>>,
    <<Metric("acc", Scalar(PyInt(1)))>>,
    <<Metric("txt", Text(PyBytes("b")))>> }

InferCalls == Calls({"t1"}, {NoneV, Some(1)}, InferMetrics, DataSets(MaxExamples))

WriteNs == {NoneV} \cup {Some(n) : n \in 0..(MaxExamples + 1)}

StaleLine == [json |-> "object", members |-> [input |-> JStr(<<"stale">>)]]
StaleFiles ==
  [f \in {InferencesFname("t1", 1)} |-> <<StaleLine, StaleLine, StaleLine, StaleLine>>]

InferNext ==
  \/ \E c \in InferCalls : JsonCall(c, MaxInferCalls)
  \/ JsonSteps

SpecInfer ==
  Init({NoArray}, {DefaultMaxNdarraySize}, WriteNs, {NoFiles, StaleFiles})
    /\ [][InferNext]_vars

(***************************************************************************)
(* TensorBoardLogger.__call__, lines 85-129.  A FileWriter is the sequence *)
(* of the summaries added to it and the number of them a flush has made    *)
(* durable.                                                                *)
(***************************************************************************)
NewWriter == [summaries |-> <<>>, flushed |-> 0, flushes |-> 0]

 \* lines 77-83: the writer of the task, next to the dict that holds it
GetSummaryWriter(writers, task_name) ==
  IF task_name \in DOMAIN writers
  THEN writers
  ELSE [t \in DOMAIN writers \cup {task_name} |->
          IF t = task_name THEN NewWriter ELSE writers[t]]

 \* lines 121-126: tag and simple_value of one summary
Summary(metric, step) ==
  [tag |-> <<"eval/", metric.name>>, simple_value |-> metric.value.value,
   step |-> step]

 \* the first metric that is not a Scalar, Len + 1 when there is none
FirstNonScalar(metrics) ==
  IF \E i \in 1..Len(metrics) : metrics[i].value.cls # "Scalar"
  THEN CHOOSE i \in 1..Len(metrics) :
         /\ metrics[i].value.cls # "Scalar"
         /\ \A j \in 1..(i - 1) : metrics[j].value.cls = "Scalar"
  ELSE Len(metrics) + 1

 \* a bug the claim C4 must detect: other variants are skipped, as
 \* JSONLogger does, instead of raising
LogSummariesSkipping(writer, step, metrics) ==
  LET keep == SelectSeq(metrics, LAMBDA m : m.value.cls = "Scalar")
      added == writer.summaries \o [i \in 1..Len(keep) |-> Summary(keep[i], step)]
  IN [writer |-> [summaries |-> added, flushed |-> Len(added),
                  flushes |-> writer.flushes + 1],
      result |-> "ok"]

 \* lines 117-129: the loop raises at the first metric that is not a Scalar,
 \* after the summaries of the metrics before it; flush only runs after it
LogSummaries(writer, step, metrics) ==
  LET k == FirstNonScalar(metrics)
      added == writer.summaries \o [i \in 1..(k - 1) |-> Summary(metrics[i], step)]
  IN IF k <= Len(metrics)
     THEN [writer |-> [writer EXCEPT !.summaries = added], result |-> "ValueError"]
     ELSE [writer |-> [summaries |-> added, flushed |-> Len(added),
                       flushes |-> writer.flushes + 1],
           result |-> "ok"]

TBLog(c) ==
  /\ tbCalls < MaxTBCalls
  /\ tbCalls' = tbCalls + 1
  /\ tbCall' = c
  /\ LET step == EffectiveStep(c.step)
         writers == GetSummaryWriter(summary_writers, c.task_name)
         out == LogSummaries(writers[c.task_name], step, c.metrics)
     IN /\ summary_writers' = [writers EXCEPT ![c.task_name] = out.writer]
        /\ tbResult' = out.result
  /\ UNCHANGED <<encVars, jsonVars>>

TBMetrics ==
  {<<>>}
    \cup {<<Metric("m1", v)>> : v \in MetricValues}
    \cup {<<Metric("m1", Scalar(PyInt(1))), Metric("m2", v)>> : v \in MetricValues}
    \cup {<<Metric("m1", Scalar(PyInt(1))), Metric("m2", Scalar(PyInt(2))),
            Metric("m3", Scalar(PyInt(3)))>>}

TBCalls == Calls({"t1", "t2"}, {NoneV, Some(1), Some(2)}, TBMetrics, {NoCall})

TBNext == \E c \in TBCalls : TBLog(c)

SpecTB ==
  Init({NoArray}, {DefaultMaxNdarraySize}, {NoneV}, {NoFiles}) /\ [][TBNext]_vars

EncNext == EncodeDefault \/ EncodeNext

SpecEncoder == Init(Arrays, MaxSizes, {NoneV}, {NoFiles}) /\ [][EncNext]_vars

(***************************************************************************)
(* What the claims expect, stated without the operators of the model.      *)
(***************************************************************************)
RECURSIVE Flatten(_, _)
Flatten(v, rank) ==
  IF rank = 0 THEN <<v>>
  ELSE IF Len(v) = 0 THEN <<>>
  ELSE Flatten(Head(v), rank - 1) \o Flatten(Tail(v), rank)

RECURSIVE NestedAs(_, _)
NestedAs(v, shape) ==
  IF shape = <<>> THEN TRUE
  ELSE /\ Len(v) = Head(shape)
       /\ \A i \in 1..Len(v) : NestedAs(v[i], Tail(shape))

IsPrefixOfLen(p, seq, n) ==
  /\ Len(p) = n
  /\ n <= Len(seq)
  /\ \A i \in 1..n : p[i] = seq[i]

 \* the summary string names the type, the shape and the dtype of the array
 \* as given (for a tensor: of the array it is converted to)
SummaryNames(r, obj) ==
  /\ r.type = "str"
  /\ r.typename = "ndarray"
  /\ r.shape = obj.shape
  /\ r.dtype = IF obj.kind = "Tensor" /\ obj.dtype = "bfloat16"
               THEN "float32" ELSE obj.dtype
  /\ r.tail = " ..."

IsElementList(r, obj) ==
  /\ r.type = "list"
  /\ NestedAs(r.value, obj.shape)
  /\ Flatten(r.value, Len(obj.shape)) = obj.data

 \* C1 (as amended): once default has run on an array, the result is the
 \* full nested element list when the element count is <= max_ndarray_size,
 \* and otherwise a summary string naming type, shape and original dtype
 \* followed by the first min(5, size) elements of the flattened array and
 \* ' ...'.
C1_DefaultOnArray ==
  encResult # NoResult =>
    LET n == Len(encObj.data)
    IN /\ n <= encMax => IsElementList(encResult, encObj)
       /\ n > encMax =>
            /\ SummaryNames(encResult, encObj)
            /\ IsPrefixOfLen(encResult.first, encObj.data, Min(FirstN, n))

 \* C1 as stated: the summary always shows five elements
C1_AlwaysFiveElements ==
  encResult # NoResult =>
    LET n == Len(encObj.data)
    IN /\ n <= encMax => IsElementList(encResult, encObj)
       /\ n > encMax =>
            /\ SummaryNames(encResult, encObj)
            /\ IsPrefixOfLen(encResult.first, encObj.data, FirstN)

 \* a bfloat16 array of four elements, over the limit of three, is
 \* summarised by its four elements
C1_Witness ==
  /\ encResult # NoResult
  /\ encObj.kind = "ndarray"
  /\ encObj.dtype = "bfloat16"
  /\ encMax = 3
  /\ encResult.type = "str"
  /\ Len(encResult.first) = 4

 \* the step a call logs at: the one given, -1 when none is given
GivenStep(c) == IF c.step = NoneV THEN -1 ELSE c.step[1]

SerializedNames(c) ==
  {c.metrics[i].name : i \in {j \in 1..Len(c.metrics) :
                                c.metrics[j].value.cls \in {"Scalar", "Text"}}}

ValueOf(c, name) ==
  LET mv == (CHOOSE m \in {c.metrics[i] : i \in 1..Len(c.metrics)} : m.name = name).value
  IN IF mv.cls = "Scalar" THEN JNum(mv.value.n) ELSE JStr(mv.textdata.chars)

 \* the JSON object a call with non-empty metrics is to append
ExpectedLine(c) ==
  [json |-> "object",
   members |-> [k \in {"step"} \cup SerializedNames(c) |->
                  IF k \in SerializedNames(c) THEN ValueOf(c, k) ELSE JNum(GivenStep(c))]]

Contents(files, fname) == IF fname \in DOMAIN files THEN files[fname] ELSE <<>>

TaskNames == {"t1", "t2"}

 \* the calls of one task with non-empty metrics that returned or raised
MetricsCallsOf(t) ==
  SelectSeq(history, LAMBDA h : h.call.task_name = t /\ h.call.metrics # <<>>)

 \* C2: whenever no call is running, the metrics file of every task holds
 \* exactly one line per ended call of that task with non-empty metrics, in
 \* call order.
C2_OneLinePerCall ==
  pc = "idle" =>
    \A t \in TaskNames :
      LET lines == Contents(fs, MetricsFname(t))
          cs == MetricsCallsOf(t)
      IN /\ Len(lines) = Len(cs)
         /\ \A i \in 1..Len(lines) : lines[i] = ExpectedLine(cs[i].call)

 \* C3: every step of a call, and an interruption at any point, leaves the
 \* metrics file of every task as it was (absent, or with the same lines),
 \* or replaces the contents the call read by those contents plus the one
 \* complete line of the call.
C3_AtomicAppend ==
  [][\A t \in TaskNames :
       LET f == MetricsFname(t)
       IN \/ /\ (f \in DOMAIN fs') = (f \in DOMAIN fs)
             /\ Contents(fs', f) = Contents(fs, f)
          \/ /\ t = call.task_name
             /\ call.metrics # <<>>
             /\ Contents(fs, f) = file_contents
             /\ f \in DOMAIN fs'
             /\ fs'[f] = Append(file_contents, ExpectedLine(call))]_vars

 \* a call was interrupted between the write of the temporary file and the
 \* rename: the metrics file still holds its one old line
C3_Witness ==
  /\ result = "interrupted"
  /\ Exists(fs, MetricsFname(call.task_name))
  /\ Exists(fs, TmpFname(MetricsFname(call.task_name)))
  /\ Len(fs[MetricsFname(call.task_name)]) = 1
  /\ fs[TmpFname(MetricsFname(call.task_name))]
       = Append(fs[MetricsFname(call.task_name)], ExpectedLine(call))

 \* C4: a TensorBoardLogger call whose metrics hold a value that is not a
 \* Scalar raises ValueError; a call whose metrics are all Scalar raises
 \* nothing, adds one summary per metric, tagged eval/<name>, at the given
 \* step (-1 when none is given), in order, and flushes the writer.
C4_ScalarOnly ==
  [][tbCalls' # tbCalls =>
       LET c == tbCall'
           old == IF c.task_name \in DOMAIN summary_writers
                  THEN summary_writers[c.task_name] ELSE NewWriter
           new == summary_writers'[c.task_name]
           allScalar == \A i \in 1..Len(c.metrics) : c.metrics[i].value.cls = "Scalar"
       IN /\ ~allScalar => tbResult' = "ValueError"
          /\ allScalar =>
               /\ tbResult' = "ok"
               /\ Len(new.summaries) = Len(old.summaries) + Len(c.metrics)
               /\ \A i \in 1..Len(old.summaries) : new.summaries[i] = old.summaries[i]
               /\ \A i \in 1..Len(c.metrics) :
                    new.summaries[Len(old.summaries) + i]
                      = [tag |-> <<"eval/", c.metrics[i].name>>,
                         simple_value |-> c.metrics[i].value.value,
                         step |-> GivenStep(c)]
               /\ new.flushes = old.flushes + 1
               /\ new.flushed = Len(new.summaries)]_vars

 \* a call of three Scalar metrics after a call that raised: the writer
 \* holds the three summaries, flushed
C4_Witness ==
  /\ tbCalls = 2
  /\ tbResult = "ok"
  /\ Len(tbCall.metrics) = 3
  /\ tbCall.step = NoneV
  /\ summary_writers[tbCall.task_name].flushes = 1
  /\ Len(summary_writers[tbCall.task_name].summaries) = 4
  /\ summary_writers[tbCall.task_name].flushed = 4

 \* the name of an inferences file: <task_name>-<step:06>.jsonl
IsInferencesFname(f) == Len(f) > 2 /\ f[Len(f)] = ".jsonl"

 \* the lines are the records of the first n examples, in dataset order
FirstExamples(lines, n) ==
  /\ Len(lines) = n
  /\ \A i \in 1..n : lines[i].members.input = JStr(<<"input", i>>)

 \* the number of elements of the zipped dataset/predictions/targets/scores
NumExamples(c) ==
  LET lens == {Len(c.dataset), Len(c.targets)}
                \cup {Len(c.inferences[k]) : k \in DOMAIN c.inferences}
  IN CHOOSE m \in lens : \A l \in lens : l <= m

C5_Returned ==
  (pc = "idle" /\ result = "ok") =>
    LET f == InferencesFname(call.task_name, GivenStep(call))
        m == MetricsFname(call.task_name)
    IN /\ write_n_results = NoneV =>
            f \in DOMAIN fs /\ FirstExamples(fs[f], NumExamples(call))
       /\ (write_n_results # NoneV /\ write_n_results # <<0>>) =>
            /\ f \in DOMAIN fs
            /\ FirstExamples(fs[f], Min(write_n_results[1], NumExamples(call)))
       /\ (write_n_results = <<0>> /\ call.metrics # <<>>) =>
            /\ m \in DOMAIN fs
            /\ fs[m] # <<>>
            /\ fs[m][Len(fs[m])] = ExpectedLine(call)

C5_NoInferencesStep ==
  write_n_results = <<0>> =>
    \A f \in DOMAIN fs \cup DOMAIN fs' :
      IsInferencesFname(f) => (f \in DOMAIN fs /\ f \in DOMAIN fs' /\ fs'[f] = fs[f])

C6_ScalarAndTextSerialized ==
  (pc = "idle" /\ history # <<>>) =>
    LET h == history[Len(history)]
        lines == Contents(fs, MetricsFname(h.call.task_name))
    IN h.call.metrics # <<>> =>
         /\ h.result = "ok"
         /\ lines # <<>>
         /\ lines[Len(lines)] = ExpectedLine(h.call)

====
